---- MODULE Spec2Model ----
(***************************************************************************)
(* Gesture recognition of the ESP32 teeth controller                        *)
(* (VRSocial/ESP32_TeethController/TeethInputManager.{h,cpp}).              *)
(*                                                                         *)
(* One checkInput() call is one atomic step: updateButtonStates() over     *)
(* every ButtonState in vector order, then analyzeGesture().  Times are    *)
(* millisecond values of millis(); the two functions read the clock        *)
(* separately, so a tick carries two clock readings.                       *)
(***************************************************************************)
EXTENDS Integers, Sequences, FiniteSets, TLC

VARIABLES
    phase,             \* "uninit" before init(), "running" after
    buttons,           \* std::vector<ButtonState>
    currentGesture,    \* std::vector<int>
    gestureStartTime,
    lastButtonTime,
    gestureActive,
    millis,            \* last value returned by millis()
    updNow,            \* local `now` of the last updateButtonStates()
    result,            \* TeethInput returned by the last checkInput()
    serial,            \* edge lines printed by the last updateButtonStates()
    hist,              \* history of the run (observer only, never read by the code)
    call,              \* a stand-alone classification: input and output
    boot,              \* value of millis() at power-up
    env,               \* what the switches do from now on: "free", "released", "stuck"
    config,            \* the fields of the ConfigManager
    eeprom,            \* the bytes of the EEPROM, by address (<< >>: none in use)
    stored             \* the configuration last saved, and what happened since

vars == <<phase, buttons, currentGesture, gestureStartTime, lastButtonTime,
          gestureActive, millis, updNow, result, serial, hist, call, boot, env,
          config, eeprom, stored>>

(***************************************************************************)
(* Program constants (TeethInputManager.h)                                 *)
(***************************************************************************)
DEBOUNCE_TIME == 50
LONG_PRESS_TIME == 800
SLIDE_MAX_INTERVAL == 300
MULTI_PRESS_WINDOW == 500

(***************************************************************************)
(* Bounds of the model                                                     *)
(***************************************************************************)
MaxTime == 960         \* last clock value at which a tick may start
MaxTimeMulti == 1130   \* the same, for the multi-channel schedule
MaxTimeSlide == 1255   \* the same, for the slide schedule
MaxTimeWrap == 660     \* ms of run time after power-up in the wrapping runs
MaxPins == 9           \* longest button pin list handed to setButtonPins()
MaxStr == 440          \* longest WiFi SSID handed to setWiFiCredentials()
MaxSaves == 3          \* calls of the ConfigManager's setters in a run
SettleBy == 500        \* last clock value at which the switches settle for good

\* millis() is an unsigned long that wraps at 2^32; the model's clock has
\* ClockBits bits and wraps the same way.
ClockBits == 11
ClockModulus == 2 ^ ClockBits

\* Milliseconds that may pass between the two millis() reads of one tick.
ClockSkews == {0, 1}

\* Tick schedule of the single-channel runs: ticks start on multiples of
\* DEBOUNCE_TIME or one ms later, at one of these spacings after the last
\* clock reading; both clock readings of a tick fall in the same ms.
TickDeltas == {0, 1, DEBOUNCE_TIME - 1, DEBOUNCE_TIME,
               SLIDE_MAX_INTERVAL + DEBOUNCE_TIME}
TickTimes == {t \in 0..MaxTime : t % DEBOUNCE_TIME <= 1}

\* Tick schedule of the multi-channel runs: a quarter of the multi-press
\* window apart.
MultiStep == MULTI_PRESS_WINDOW \div 4
MultiTickTimes == {t \in 0..MaxTimeMulti : t % MultiStep = 0}
SlideTickTimes == {t \in 0..MaxTimeSlide : t % MultiStep = 0}

\* Channel lists handed to init().
PinConfigs == {<<3>>}
MultiConfigs == {<< >>, <<2, 2>>, <<2, 3, 4>>}
SlidePins == <<2, 3, 4>>

\* Inputs of the stand-alone classification.
MaxPresses == 3
MaxChannel == 4
PressSequences ==
    UNION {[1..n -> 1..MaxChannel] : n \in 1..MaxPresses}
Durations ==
    {d \in {k * SLIDE_MAX_INTERVAL + j : k \in 0..(MaxPresses + 1), j \in {-1, 0, 1}}
            \cup {LONG_PRESS_TIME + j : j \in {-1, 0, 1}} : d >= 0}

(***************************************************************************)
(* Helpers                                                                 *)
(***************************************************************************)
Abs(x) == IF x < 0 THEN -x ELSE x

\* Variant: the difference is taken as a signed number.
Elapsed_Signed(t, then) == t - then

\* unsigned long subtraction now - then.
Elapsed(t, then) == (t - then) % ClockModulus

\* std::sort on a vector<int>: insertion into an ascending sequence.
RECURSIVE Insert(_, _)
Insert(x, s) ==
    IF s = << >> THEN <<x>>
    ELSE IF x <= Head(s) THEN <<x>> \o s
    ELSE <<Head(s)>> \o Insert(x, Tail(s))

RECURSIVE Sort(_)
Sort(s) == IF s = << >> THEN << >> ELSE Insert(Head(s), Sort(Tail(s)))

\* Variant: the duplicates are not erased.
Unique_KeepsAll(s) == s

\* v.erase(std::unique(v.begin(), v.end()), v.end()): drops every element
\* equal to its predecessor.
RECURSIVE Unique(_)
Unique(s) ==
    IF Len(s) <= 1 THEN s
    ELSE IF s[1] = s[2] THEN Unique(Tail(s))
    ELSE <<s[1]>> \o Unique(Tail(s))

SortUnique(s) == Unique(Sort(s))

\* The isSlide loop: every consecutive pair of the sequence differs by 1.
RECURSIVE IsSlide(_, _)
IsSlide(sequence, i) ==
    IF i > Len(sequence) THEN TRUE
    ELSE IF Abs(sequence[i] - sequence[i - 1]) # 1 THEN FALSE
    ELSE IsSlide(sequence, i + 1)

\* Variant: a duration of exactly LONG_PRESS_TIME already counts as long.
IsLongPress_AtThreshold(duration) == duration >= LONG_PRESS_TIME

\* duration > LONG_PRESS_TIME
IsLongPress(duration) == duration > LONG_PRESS_TIME

\* Variant: the slide budget does not scale with the number of channels.
WithinSlideTime_Unscaled(duration, uniqueCount) ==
    duration < SLIDE_MAX_INTERVAL

\* duration < SLIDE_MAX_INTERVAL * uniqueCount
WithinSlideTime(duration, uniqueCount) ==
    duration < SLIDE_MAX_INTERVAL * uniqueCount

getGestureType(sequence, duration) ==
    IF sequence = << >> THEN "unknown"
    ELSE LET uniqueButtons == SortUnique(sequence)
             uniqueCount == Len(uniqueButtons)
             totalPresses == Len(sequence)
         IN  IF uniqueCount = 1
             THEN IF IsLongPress(duration) THEN "long_press"
                  ELSE IF totalPresses > 1 THEN "multi_press"
                  ELSE "single_click"
             ELSE IF uniqueCount > 1
             THEN IF IsSlide(sequence, 2) /\ WithinSlideTime(duration, uniqueCount)
                  THEN "slide"
                  ELSE "multi_press"
             ELSE "unknown"

\* TeethInput() default constructor.  totalDuration is the millisecond value
\* from which result.duration (seconds) is computed, sequence the vector
\* handed to getGestureType.
NoInput ==
    [isValid |-> FALSE, gesture |-> "", teeth |-> << >>,
     totalDuration |-> 0, sequence |-> << >>]

\* The result analyzeGesture() fills in for a non-empty currentGesture.
Emit(sequence, totalDuration) ==
    [isValid |-> TRUE,
     gesture |-> getGestureType(sequence, totalDuration),
     teeth |-> SortUnique(sequence),
     totalDuration |-> totalDuration,
     sequence |-> sequence]

NewButton(pin) ==
    [pin |-> pin, currentState |-> FALSE, lastState |-> FALSE,
     pressStartTime |-> 0, lastChangeTime |-> 0, isPressed |-> FALSE]

\* Variant: the session stays marked active.
resetGesture_StaysActive(st) ==
    [st EXCEPT !.currentGesture = << >>,
               !.gestureStartTime = 0,
               !.lastButtonTime = 0]

\* Variant: the vector is not cleared.
resetGesture_KeepsPresses(st) ==
    [st EXCEPT !.gestureStartTime = 0,
               !.lastButtonTime = 0,
               !.gestureActive = FALSE]

\* The gesture fields as resetGesture() leaves them.
resetGesture(st) ==
    [st EXCEPT !.currentGesture = << >>,
               !.gestureStartTime = 0,
               !.lastButtonTime = 0,
               !.gestureActive = FALSE]

\* Variant: the level has to be stable for twice DEBOUNCE_TIME.
Debounced_Doubled(t, lastChangeTime) ==
    Elapsed(t, lastChangeTime) > 2 * DEBOUNCE_TIME

\* Variant: a level stable for exactly DEBOUNCE_TIME is accepted.
Debounced_AtLeast(t, lastChangeTime) ==
    Elapsed(t, lastChangeTime) >= DEBOUNCE_TIME

\* (now - btn.lastChangeTime) > DEBOUNCE_TIME
Debounced(t, lastChangeTime) == Elapsed(t, lastChangeTime) > DEBOUNCE_TIME

\* Variant: the press is not recorded in isPressed.
PressEdge_NotPressed(st, i, b1, t) ==
    [st EXCEPT
        !.buttons[i] = [b1 EXCEPT !.currentState = TRUE,
                                  !.pressStartTime = t],
        !.currentGesture = Append(st.currentGesture, b1.pin),
        !.lastButtonTime = t,
        !.gestureStartTime =
            IF st.gestureActive THEN st.gestureStartTime ELSE t,
        !.gestureActive = TRUE,
        !.serial = Append(st.serial,
            [idx |-> i, pin |-> b1.pin, edge |-> "press", held |-> 0])]

\* Variant: every press edge sets the start time of the session.
PressEdge_RestartsSession(st, i, b1, t) ==
    [st EXCEPT
        !.buttons[i] = [b1 EXCEPT !.currentState = TRUE,
                                  !.pressStartTime = t,
                                  !.isPressed = TRUE],
        !.currentGesture = Append(st.currentGesture, b1.pin),
        !.lastButtonTime = t,
        !.gestureStartTime = t,
        !.gestureActive = TRUE,
        !.serial = Append(st.serial,
            [idx |-> i, pin |-> b1.pin, edge |-> "press", held |-> 0])]

\* The press branch of updateButtonStates() for buttons[i]; b1 is the button
\* with its debounce bookkeeping done, t the local now.
PressEdge(st, i, b1, t) ==
    [st EXCEPT
        !.buttons[i] = [b1 EXCEPT !.currentState = TRUE,
                                  !.pressStartTime = t,
                                  !.isPressed = TRUE],
        !.currentGesture = Append(st.currentGesture, b1.pin),
        !.lastButtonTime = t,
        !.gestureStartTime =
            IF st.gestureActive THEN st.gestureStartTime ELSE t,
        !.gestureActive = TRUE,
        !.serial = Append(st.serial,
            [idx |-> i, pin |-> b1.pin, edge |-> "press", held |-> 0])]

\* Variant: isPressed is not cleared.
ReleaseEdge_KeepsPressed(st, i, b1, t) ==
    [st EXCEPT
        !.buttons[i] = [b1 EXCEPT !.currentState = FALSE],
        !.serial = Append(st.serial,
            [idx |-> i, pin |-> b1.pin, edge |-> "release",
             held |-> Elapsed(t, b1.pressStartTime)])]

\* Variant: a release counts as button activity.
ReleaseEdge_ExtendsWindow(st, i, b1, t) ==
    [st EXCEPT
        !.buttons[i] = [b1 EXCEPT !.currentState = FALSE,
                                  !.isPressed = FALSE],
        !.lastButtonTime = t,
        !.serial = Append(st.serial,
            [idx |-> i, pin |-> b1.pin, edge |-> "release",
             held |-> Elapsed(t, b1.pressStartTime)])]

\* The release branch of updateButtonStates() for buttons[i].
ReleaseEdge(st, i, b1, t) ==
    [st EXCEPT
        !.buttons[i] = [b1 EXCEPT !.currentState = FALSE,
                                  !.isPressed = FALSE],
        !.serial = Append(st.serial,
            [idx |-> i, pin |-> b1.pin, edge |-> "release",
             held |-> Elapsed(t, b1.pressStartTime)])]

\* Body of the for loop of updateButtonStates() for buttons[i]; reading is
\* !digitalRead(btn.pin), t the local now.
UpdateButton(st, i, reading, t) ==
    LET btn == st.buttons[i]
        lct == IF reading # btn.lastState THEN t ELSE btn.lastChangeTime
        accept == Debounced(t, lct) /\ reading # btn.currentState
        b1 == [btn EXCEPT !.lastChangeTime = lct, !.lastState = reading]
    IN  IF ~accept
        THEN [st EXCEPT !.buttons[i] = b1]
        ELSE IF reading
        THEN PressEdge(st, i, b1, t)
        ELSE ReleaseEdge(st, i, b1, t)

RECURSIVE UpdateFrom(_, _, _, _)
UpdateFrom(st, i, level, t) ==
    IF i > Len(st.buttons) THEN st
    ELSE UpdateFrom(UpdateButton(st, i, ~level[st.buttons[i].pin], t),
                    i + 1, level, t)

\* updateButtonStates(); level[p] is digitalRead(p) (TRUE = HIGH).
updateButtonStates(st, level, t) ==
    UpdateFrom([st EXCEPT !.serial = << >>], 1, level, t)

\* Variant: the pressed channels are not looked at.
AnyPressed_Never(bs) == FALSE

\* The anyPressed loop of analyzeGesture().
AnyPressed(bs) == \E i \in 1..Len(bs) : bs[i].isPressed

\* Variant: the window runs from the start of the session.
Quiescent_FromStart(st, t) ==
    /\ ~AnyPressed(st.buttons)
    /\ st.gestureActive
    /\ Elapsed(t, st.gestureStartTime) > MULTI_PRESS_WINDOW

\* Variant: the window counts as over when it is exactly used up.
Quiescent_AtWindow(st, t) ==
    /\ ~AnyPressed(st.buttons)
    /\ st.gestureActive
    /\ Elapsed(t, st.lastButtonTime) >= MULTI_PRESS_WINDOW

\* !anyPressed && gestureActive && (now - lastButtonTime) > MULTI_PRESS_WINDOW
Quiescent(st, t) ==
    /\ ~AnyPressed(st.buttons)
    /\ st.gestureActive
    /\ Elapsed(t, st.lastButtonTime) > MULTI_PRESS_WINDOW

\* analyzeGesture(); t is its local now.
analyzeGesture(st, t) ==
    IF Quiescent(st, t)
    THEN LET r == IF st.currentGesture # << >>
                  THEN Emit(st.currentGesture, Elapsed(t, st.gestureStartTime))
                  ELSE NoInput
         IN  [resetGesture(st) EXCEPT !.result = r]
    ELSE [st EXCEPT !.result = NoInput]

\* The manager's fields gathered into one record.
State ==
    [buttons |-> buttons, currentGesture |-> currentGesture,
     gestureStartTime |-> gestureStartTime, lastButtonTime |-> lastButtonTime,
     gestureActive |-> gestureActive, result |-> result, serial |-> serial]

Store(st) ==
    /\ buttons' = st.buttons
    /\ currentGesture' = st.currentGesture
    /\ gestureStartTime' = st.gestureStartTime
    /\ lastButtonTime' = st.lastButtonTime
    /\ gestureActive' = st.gestureActive
    /\ result' = st.result
    /\ serial' = st.serial

(***************************************************************************)
(* History of a run.  pre is the state before the tick, upd the state      *)
(* after updateButtonStates(), fin the state after analyzeGesture().       *)
(***************************************************************************)
IsPress(line) == line.edge = "press"

NoHistory ==
    [open |-> 0,       \* sessions opened minus valid results returned
     pending |-> 0,    \* press edges accepted minus press edges emitted
     since |-> 0,      \* press edges accepted since the last valid result
     atValid |-> 0,    \* value of since when the last tick returned a valid result
     first |-> 0,      \* gestureStartTime of the session the last tick closed
     last |-> 0,       \* lastButtonTime of the session the last tick closed
     flip |-> << >>]   \* per button: tick time at which the sampled level last changed

History(h, pre, upd, fin, t) ==
    LET presses == Len(SelectSeq(upd.serial, IsPress))
        valid == fin.result.isValid
    IN  [open |-> h.open
                  + (IF ~pre.gestureActive /\ presses > 0 THEN 1 ELSE 0)
                  - (IF valid THEN 1 ELSE 0),
         pending |-> h.pending + presses
                     - (IF valid THEN Len(fin.result.sequence) ELSE 0),
         since |-> IF valid THEN 0 ELSE h.since + presses,
         atValid |-> IF valid THEN h.since + presses ELSE 0,
         first |-> IF valid THEN upd.gestureStartTime ELSE 0,
         last |-> IF valid THEN upd.lastButtonTime ELSE 0,
         flip |-> [i \in 1..Len(pre.buttons) |->
                     IF upd.buttons[i].lastState # pre.buttons[i].lastState
                     THEN t ELSE h.flip[i]]]

NoCall == [sequence |-> << >>, duration |-> 0, out |-> NoInput, done |-> TRUE]

(***************************************************************************)
(* ConfigManager (ConfigManager.{h,cpp}): the configuration and its copy   *)
(* in the EEPROM.  An int takes four bytes, low byte first; a String is a  *)
(* sequence of character codes.                                            *)
(***************************************************************************)
EEPROM_SIZE == 512
CONFIG_VERSION_ADDR == 0
CONFIG_START_ADDR == 4
CURRENT_CONFIG_VERSION == 1

\* A ConfigManager as constructed: empty strings and pin list, the two int
\* fields not initialized (junk).
NewConfig(junk) ==
    [wifiSSID |-> << >>, wifiPassword |-> << >>,
     questIP |-> << >>, questPort |-> junk,
     pcIP |-> << >>, pcPort |-> junk,
     buttonPins |-> << >>]

NoConfig == NewConfig(0)
NoStored ==
    [has |-> FALSE, cfg |-> NoConfig, fresh |-> FALSE, loaded |-> FALSE, saves |-> 0]

\* The four bytes of a 32-bit int, and the int of four bytes.
IntBytes(v) ==
    <<v % 256, (v \div 256) % 256, (v \div 65536) % 256, (v \div 16777216) % 256>>

BytesInt(b) ==
    b[1] + 256 * b[2] + 65536 * b[3]
         + 16777216 * (IF b[4] >= 128 THEN b[4] - 256 ELSE b[4])

\* EEPROM.put(addr, v) for an int: nothing is written unless the four bytes
\* fit.
PutInt(rom, addr, v) ==
    IF addr + 4 > EEPROM_SIZE THEN rom
    ELSE [a \in DOMAIN rom |->
            IF a \in addr..(addr + 3) THEN IntBytes(v)[a - addr + 1] ELSE rom[a]]

\* EEPROM.get(addr, v) for an int: v keeps its old value unless the four
\* bytes are inside the EEPROM.
GetInt(rom, addr, old) ==
    IF addr + 4 > EEPROM_SIZE THEN old
    ELSE BytesInt(<<rom[addr], rom[addr + 1], rom[addr + 2], rom[addr + 3]>>)

\* EEPROM.read(addr): 0 outside the EEPROM.
ReadByte(rom, addr) == IF addr >= EEPROM_SIZE THEN 0 ELSE rom[addr]

\* writeStringToEEPROM(addr, str): the length, then the characters one by
\* one; EEPROM.write() drops the ones outside the EEPROM.
writeStringToEEPROM(rom, addr, str) ==
    LET r1 == PutInt(rom, addr, Len(str))
    IN  [a \in DOMAIN rom |->
           IF a \in (addr + 4)..(addr + 3 + Len(str))
           THEN str[a - addr - 3] ELSE r1[a]]

\* readStringFromEEPROM(addr); junk is the value of the uninitialized local.
readStringFromEEPROM(rom, addr, junk) ==
    LET length == GetInt(rom, addr, junk)
    IN  [i \in 1..length |-> ReadByte(rom, addr + 3 + i)]

\* The address after a String of this length.
AfterString(addr, str) == addr + 4 + Len(str)

\* The EEPROM as ConfigManager::saveToEEPROM() leaves it.
Saved(cfg, rom) ==
    LET r0 == PutInt(rom, CONFIG_VERSION_ADDR, CURRENT_CONFIG_VERSION)
        a1 == CONFIG_START_ADDR
        r1 == writeStringToEEPROM(r0, a1, cfg.wifiSSID)
        a2 == AfterString(a1, cfg.wifiSSID)
        r2 == writeStringToEEPROM(r1, a2, cfg.wifiPassword)
        a3 == AfterString(a2, cfg.wifiPassword)
        r3 == writeStringToEEPROM(r2, a3, cfg.questIP)
        a4 == AfterString(a3, cfg.questIP)
        r4 == PutInt(r3, a4, cfg.questPort)
        a5 == a4 + 4
        r5 == writeStringToEEPROM(r4, a5, cfg.pcIP)
        a6 == AfterString(a5, cfg.pcIP)
        r6 == PutInt(r5, a6, cfg.pcPort)
        a7 == a6 + 4
        r7 == PutInt(r6, a7, Len(cfg.buttonPins))
        a8 == a7 + 4
    IN  [a \in DOMAIN rom |->
           IF /\ a >= a8 /\ a < a8 + 4 * Len(cfg.buttonPins)
              /\ a8 + 4 * ((a - a8) \div 4) + 4 <= EEPROM_SIZE
           THEN IntBytes(cfg.buttonPins[((a - a8) \div 4) + 1])[((a - a8) % 4) + 1]
           ELSE r7[a]]

\* Variant: four pins are read back at most.
PinsToLoad_Four(buttonCount) == IF buttonCount < 4 THEN buttonCount ELSE 4

\* for (int i = 0; i < buttonCount && i < 8; i++)
PinsToLoad(buttonCount) == IF buttonCount < 8 THEN buttonCount ELSE 8

\* The fields as ConfigManager::loadFromEEPROM() leaves them; junk is the
\* value of its uninitialized locals.
Loaded(cfg, rom, junk) ==
    IF GetInt(rom, CONFIG_VERSION_ADDR, junk) # CURRENT_CONFIG_VERSION THEN cfg
    ELSE LET a1 == CONFIG_START_ADDR
             ssid == readStringFromEEPROM(rom, a1, junk)
             a2 == AfterString(a1, ssid)
             password == readStringFromEEPROM(rom, a2, junk)
             a3 == AfterString(a2, password)
             qIP == readStringFromEEPROM(rom, a3, junk)
             a4 == AfterString(a3, qIP)
             qPort == GetInt(rom, a4, cfg.questPort)
             a5 == a4 + 4
             pIP == readStringFromEEPROM(rom, a5, junk)
             a6 == AfterString(a5, pIP)
             pPort == GetInt(rom, a6, cfg.pcPort)
             a7 == a6 + 4
             buttonCount == GetInt(rom, a7, junk)
             a8 == a7 + 4
         IN  [wifiSSID |-> ssid, wifiPassword |-> password,
              questIP |-> qIP, questPort |-> qPort,
              pcIP |-> pIP, pcPort |-> pPort,
              buttonPins |-> [i \in 1..PinsToLoad(buttonCount) |->
                                GetInt(rom, a8 + 4 * (i - 1), junk)]]

(***************************************************************************)
(* Initial state and operations                                            *)
(***************************************************************************)
Init ==
    /\ phase = "uninit"
    /\ buttons = << >>
    /\ currentGesture = << >>
    /\ gestureStartTime = 0
    /\ lastButtonTime = 0
    /\ gestureActive = FALSE
    /\ millis = 0
    /\ updNow = 0
    /\ result = NoInput
    /\ serial = << >>
    /\ hist = NoHistory
    /\ call = NoCall
    /\ boot = 0
    /\ env = "free"
    /\ config = NoConfig
    /\ eeprom = << >>
    /\ stored = NoStored

\* TeethInputManager::init(buttonPins)
init(buttonPins) ==
    /\ phase = "uninit"
    /\ call.done
    /\ phase' = "running"
    /\ Store(resetGesture(
         [State EXCEPT !.buttons = [i \in 1..Len(buttonPins) |-> NewButton(buttonPins[i])]]))
    /\ hist' = [NoHistory EXCEPT !.flip = [i \in 1..Len(buttonPins) |-> 0]]
    /\ UNCHANGED <<millis, updNow, call, boot, env, config, eeprom, stored>>

\* Variant: the gesture is analysed before the buttons are sampled.
checkInput_EvaluateFirst(t, e, level) ==
    LET ana == analyzeGesture(State, t)
        fin == [updateButtonStates(ana, level, t + e) EXCEPT !.result = ana.result]
    IN  /\ phase = "running"
        /\ updNow' = (t + e) % ClockModulus
        /\ millis' = (t + e) % ClockModulus
        /\ Store(fin)
        /\ hist' = History(hist, State, fin, fin, t + e)
        /\ UNCHANGED <<phase, call, boot, env, config, eeprom, stored>>

\* TeethInputManager::checkInput(): updateButtonStates() reads the clock
\* at t, analyzeGesture() e ms later.
checkInput(t, e, level) ==
    LET upd == updateButtonStates(State, level, t)
        fin == analyzeGesture(upd, (t + e) % ClockModulus)
    IN  /\ phase = "running"
        /\ updNow' = t
        /\ millis' = (t + e) % ClockModulus
        /\ Store(fin)
        /\ hist' = History(hist, State, upd, fin, t)
        /\ UNCHANGED <<phase, call, boot, env, config, eeprom, stored>>

Pins == {buttons[i].pin : i \in 1..Len(buttons)}

Next ==
    \/ \E cfg \in PinConfigs : init(cfg)
    \/ \E d \in TickDeltas, level \in [Pins -> BOOLEAN] :
          /\ millis + d \in TickTimes
          /\ checkInput(millis + d, 0, level)

Spec == Init /\ [][Next]_vars

\* One pin changed at a time.
OneChange(level) ==
    Cardinality({buttons[i].pin : i \in
                   {j \in 1..Len(buttons) :
                      buttons[j].lastState = level[buttons[j].pin]}}) <= 1

\* Several channels, and the channel lists init() does not expect; ticks
\* one MultiStep apart, the second clock reading of a tick up to a ms after
\* the first, at most one pin changing its level from one tick to the next.
NextMulti ==
    \/ \E cfg \in MultiConfigs : init(cfg)
    \/ \E t \in MultiTickTimes, e \in ClockSkews, level \in [Pins -> BOOLEAN] :
          /\ t > millis
          /\ t - millis <= MultiStep
          /\ OneChange(level)
          /\ checkInput(t, e, level)

SpecMulti == Init /\ [][NextMulti]_vars

\* Channels 2, 3, 4 over a longer run: ticks one MultiStep apart, both clock
\* readings of a tick in the same millisecond, at most one pin changing its
\* level from one tick to the next.
NextSlide ==
    \/ init(SlidePins)
    \/ \E t \in SlideTickTimes, level \in [Pins -> BOOLEAN] :
          /\ t > millis
          /\ t - millis <= MultiStep
          /\ OneChange(level)
          /\ checkInput(t, 0, level)

SpecSlide == Init /\ [][NextSlide]_vars

\* One channel, powered up with the clock shortly before its wrap-around:
\* the clock wraps WrapAfter ms after power-up; the ticks follow the schedule
\* of the single-channel runs, counted from power-up.
WrapAfter == {DEBOUNCE_TIME + DEBOUNCE_TIME \div 2, SLIDE_MAX_INTERVAL + DEBOUNCE_TIME \div 2}
WrapTickTimes == {t \in 0..MaxTimeWrap : t % DEBOUNCE_TIME <= 1}
Uptime == (millis - boot) % ClockModulus

InitWrap ==
    /\ phase = "uninit"
    /\ buttons = << >>
    /\ currentGesture = << >>
    /\ gestureStartTime = 0
    /\ lastButtonTime = 0
    /\ gestureActive = FALSE
    /\ boot \in {ClockModulus - k : k \in WrapAfter}
    /\ millis = boot
    /\ updNow = 0
    /\ result = NoInput
    /\ serial = << >>
    /\ hist = NoHistory
    /\ call = NoCall
    /\ env = "free"
    /\ config = NoConfig
    /\ eeprom = << >>
    /\ stored = NoStored

NextWrap ==
    \/ \E cfg \in PinConfigs : init(cfg)
    \/ \E d \in TickDeltas, level \in [Pins -> BOOLEAN] :
          /\ Uptime + d \in WrapTickTimes
          /\ checkInput((millis + d) % ClockModulus, 0, level)

SpecWrap == InitWrap /\ [][NextWrap]_vars

\* Two channels whose switches, at some tick up to SettleBy, either are let
\* go for good or have the first channel held down for good.
LivePins == <<2, 3>>
LiveTickTimes ==
    {t \in 0..(SettleBy + MULTI_PRESS_WINDOW + 2 * MultiStep) : t % MultiStep = 0}

settle(mode) ==
    /\ phase = "running"
    /\ env = "free"
    /\ millis <= SettleBy
    /\ env' = mode
    /\ UNCHANGED <<phase, buttons, currentGesture, gestureStartTime,
                   lastButtonTime, gestureActive, millis, updNow, result,
                   serial, hist, call, boot, config, eeprom, stored>>

\* The levels digitalRead() can return under env (TRUE = HIGH = released).
EnvAllows(level) ==
    CASE env = "released" -> \A p \in Pins : level[p]
      [] env = "stuck" -> ~level[LivePins[1]]
      [] OTHER -> TRUE

\* The caller's loop: one checkInput() per pass, the clock one MultiStep on.
LiveTick ==
    \E t \in LiveTickTimes, level \in [Pins -> BOOLEAN] :
       /\ t > millis
       /\ t - millis <= MultiStep
       /\ EnvAllows(level)
       /\ checkInput(t, 0, level)

NextLive ==
    \/ init(LivePins)
    \/ \E mode \in {"released", "stuck"} : settle(mode)
    \/ LiveTick

\* The clock moving on by one MultiStep: the steps of LiveTick, and only
\* they, are steps of this kind.
Advance ==
    /\ phase = "running"
    /\ millis + MultiStep \in LiveTickTimes
    /\ millis' = millis + MultiStep

\* The loop never stops calling checkInput().
SpecLive == Init /\ [][NextLive]_vars /\ WF_millis(Advance)

\* The arguments of the ConfigManager's setters: strings of letters, pin
\* lists with pin numbers of one and two bytes and a negative one.
Text(n) == [i \in 1..n |-> 97 + (i % 26)]
LongPins(n) == [i \in 1..n |-> IF i = n THEN -1 ELSE 257 * i]
PinLists == {<<2, 4, 5, 18>>} \cup {LongPins(n) : n \in {8, MaxPins}}
Credentials == {<<Text(2), Text(3)>>, <<Text(MaxStr), << >> >>}
TargetPorts == {8888, -1}
Uninitialized == {0, 3}

ManagerIdle ==
    UNCHANGED <<phase, buttons, currentGesture, gestureStartTime,
                lastButtonTime, gestureActive, millis, updNow, result,
                serial, hist, call, boot, env>>

\* The tail of the three setters: saveToEEPROM() of the new fields.
saveToEEPROM(cfg) ==
    /\ phase = "config"
    /\ stored.saves < MaxSaves
    /\ config' = cfg
    /\ eeprom' = Saved(cfg, eeprom)
    /\ stored' = [has |-> TRUE, cfg |-> cfg, fresh |-> FALSE, loaded |-> FALSE,
                  saves |-> stored.saves + 1]
    /\ ManagerIdle

setWiFiCredentials(ssid, password) ==
    saveToEEPROM([config EXCEPT !.wifiSSID = ssid, !.wifiPassword = password])

setTargets(qIP, qPort, pIP, pPort) ==
    saveToEEPROM([config EXCEPT !.questIP = qIP, !.questPort = qPort,
                                !.pcIP = pIP, !.pcPort = pPort])

setButtonPins(pins) ==
    saveToEEPROM([config EXCEPT !.buttonPins = pins])

\* ConfigManager::loadFromEEPROM()
loadFromEEPROM(junk) ==
    /\ phase = "config"
    /\ config' = Loaded(config, eeprom, junk)
    /\ stored' = [stored EXCEPT !.loaded = TRUE]
    /\ UNCHANGED eeprom
    /\ ManagerIdle

\* Power cycle: a newly constructed ConfigManager over the committed EEPROM.
restart(junk) ==
    /\ phase = "config"
    /\ config' = NewConfig(junk)
    /\ stored' = [stored EXCEPT !.fresh = TRUE, !.loaded = FALSE]
    /\ UNCHANGED eeprom
    /\ ManagerIdle

InitConfig ==
    /\ phase = "config"
    /\ buttons = << >>
    /\ currentGesture = << >>
    /\ gestureStartTime = 0
    /\ lastButtonTime = 0
    /\ gestureActive = FALSE
    /\ millis = 0
    /\ updNow = 0
    /\ result = NoInput
    /\ serial = << >>
    /\ hist = NoHistory
    /\ call = NoCall
    /\ boot = 0
    /\ env = "free"
    /\ config \in {NewConfig(junk) : junk \in Uninitialized}
    /\ eeprom = [a \in 0..(EEPROM_SIZE - 1) |-> 255]
    /\ stored = NoStored

NextConfig ==
    \/ \E c \in Credentials : setWiFiCredentials(c[1], c[2])
    \/ \E qPort \in TargetPorts : setTargets(Text(11), qPort, Text(11), 9999)
    \/ \E pins \in PinLists : setButtonPins(pins)
    \/ \E junk \in Uninitialized : loadFromEEPROM(junk)
    \/ \E junk \in Uninitialized : restart(junk)

SpecConfig == InitConfig /\ [][NextConfig]_vars

\* The classification of analyzeGesture() applied to one input.
classify ==
    /\ ~call.done
    /\ call' = [call EXCEPT !.out = Emit(call.sequence, call.duration),
                            !.done = TRUE]
    /\ UNCHANGED <<phase, buttons, currentGesture, gestureStartTime,
                   lastButtonTime, gestureActive, millis, updNow, result,
                   serial, hist, boot, env, config, eeprom, stored>>

InitClassify ==
    /\ phase = "uninit"
    /\ buttons = << >>
    /\ currentGesture = << >>
    /\ gestureStartTime = 0
    /\ lastButtonTime = 0
    /\ gestureActive = FALSE
    /\ millis = 0
    /\ updNow = 0
    /\ result = NoInput
    /\ serial = << >>
    /\ hist = NoHistory
    /\ boot = 0
    /\ env = "free"
    /\ config = NoConfig
    /\ eeprom = << >>
    /\ stored = NoStored
    /\ call \in {[sequence |-> s, duration |-> d, out |-> NoInput, done |-> FALSE] :
                   s \in PressSequences, d \in Durations}

NextClassify == classify

SpecClassify == InitClassify /\ [][NextClassify]_vars

(***************************************************************************)
(* Properties                                                              *)
(***************************************************************************)
PressPins(lines) == [k \in 1..Len(SelectSeq(lines, IsPress)) |->
                        SelectSeq(lines, IsPress)[k].pin]
Running == phase = "running"
SeqToSet(s) == {s[i] : i \in 1..Len(s)}

\* C1: every session yields exactly one valid result, returned by the tick
\* that closes it (sessions opened minus valid results is 1 while a session
\* is open and 0 otherwise); every accepted press edge is in exactly one
\* emitted gesture (the accepted edges not yet emitted are exactly the open
\* session's presses); a valid result is returned only when at least one
\* press edge was accepted since the previous valid result, and it carries
\* exactly those presses.
C1_ExactlyOnce ==
    /\ hist.open = (IF gestureActive THEN 1 ELSE 0)
    /\ hist.pending = Len(currentGesture)
    /\ result.isValid =>
          /\ ~gestureActive
          /\ hist.atValid >= 1
          /\ hist.atValid = Len(result.sequence)

C1_Witness ==
    /\ result.isValid
    /\ Len(result.sequence) >= 2
    /\ Len(result.teeth) >= 2

\* C2: a tick closes the session (returns a valid result and resets) if and
\* only if, after its sampling, the session is active, no channel is
\* pressed and now - lastButtonTime > MULTI_PRESS_WINDOW, strictly: nothing
\* is emitted at exactly 500 ms, nothing while a channel is pressed.
C2_Step ==
    LET accepted == PressPins(serial') # << >>
        activeAfter == gestureActive \/ accepted
        lastAfter == IF accepted THEN updNow' ELSE lastButtonTime
        quiescent == /\ activeAfter
                     /\ \A i \in 1..Len(buttons') : ~buttons'[i].isPressed
                     /\ millis' - lastAfter > MULTI_PRESS_WINDOW
    IN  Running =>
          /\ result'.isValid <=> quiescent
          /\ (activeAfter /\ ~gestureActive') <=> quiescent

C2_QuiescenceClose == [][C2_Step]_vars

C2_Witness ==
    /\ result.isValid
    /\ Len(buttons) > 1
    /\ millis - hist.last = MULTI_PRESS_WINDOW + 1

\* C3: a channel whose sampled level changed DEBOUNCE_TIME or less before
\* the tick produces no press or release edge in that tick and keeps
\* isPressed and currentState; the presses appended to the session are
\* exactly the press edges of the tick, so a bouncing channel adds nothing,
\* and a tick in which every channel bounces leaves the session as it was
\* unless the tick closes it.
C3_Step ==
    LET bounced(i) == updNow' - hist'.flip[i] <= DEBOUNCE_TIME
        session == <<currentGesture, gestureStartTime, lastButtonTime, gestureActive>>
    IN  Running =>
          /\ \A i \in 1..Len(buttons) :
                bounced(i) =>
                   /\ buttons'[i].isPressed = buttons[i].isPressed
                   /\ buttons'[i].currentState = buttons[i].currentState
                   /\ \A k \in 1..Len(serial') : serial'[k].idx # i
          /\ ~result'.isValid => currentGesture' = currentGesture \o PressPins(serial')
          /\ (\A i \in 1..Len(buttons) : bounced(i)) =>
                \/ session' = session
                \/ result'.isValid

C3_Debounce == [][C3_Step]_vars

C3_Witness ==
    \E i \in 1..Len(buttons) :
       /\ buttons[i].lastState # buttons[i].currentState
       /\ updNow - hist.flip[i] = DEBOUNCE_TIME
       /\ gestureActive
       /\ serial = << >>

\* C4: for every non-empty press sequence and duration the emitted category
\* and channel list are those of the documented algorithm: the channels are
\* the presses deduplicated in ascending order; one channel: long_press if
\* duration > 800, else multi_press if pressed more than once, else
\* single_click; several channels: slide iff every consecutive pair of the
\* original sequence differs by exactly 1 and duration < 300 * (number of
\* channels), else multi_press.
DocChannels(p) ==
    CHOOSE s \in [1..Cardinality(SeqToSet(p)) -> SeqToSet(p)] :
       \A i, j \in 1..Cardinality(SeqToSet(p)) : i < j => s[i] < s[j]

DocCategory(p, d) ==
    LET n == Cardinality(SeqToSet(p))
        adjacent == \A k \in 1..(Len(p) - 1) :
                       p[k + 1] - p[k] = 1 \/ p[k] - p[k + 1] = 1
    IN  IF n = 1
        THEN IF d > 800 THEN "long_press"
             ELSE IF Len(p) > 1 THEN "multi_press"
             ELSE "single_click"
        ELSE IF adjacent /\ d < 300 * n THEN "slide" ELSE "multi_press"

C4_Classification ==
    (call.done /\ call.sequence # << >>) =>
       /\ call.out.isValid
       /\ call.out.gesture = DocCategory(call.sequence, call.duration)
       /\ call.out.teeth = DocChannels(call.sequence)

C4_Witness ==
    /\ call.done
    /\ call.sequence = <<2, 2, 3>>
    /\ call.duration = 299
    /\ call.out.gesture = "multi_press"
    /\ call.out.teeth = <<2, 3>>

\* The single press of the closed session was sampled released within a
\* quarter of LONG_PRESS_TIME after its press edge.
ReleasedQuickly(c) ==
    \E i \in 1..Len(buttons) :
       /\ buttons[i].pin = c
       /\ ~buttons[i].isPressed
       /\ buttons[i].lastChangeTime - buttons[i].pressStartTime <= LONG_PRESS_TIME \div 4

\* C5 as stated: a session with exactly one accepted press edge, released
\* quickly, is emitted as single_click with channels = [c], whatever the
\* tick schedule.
C5_SingleClickAlways ==
    (/\ result.isValid
     /\ Len(result.sequence) = 1
     /\ ReleasedQuickly(result.sequence[1]))
    => /\ result.gesture = "single_click"
       /\ result.teeth = result.sequence

\* C5 amended: a session with exactly one accepted press edge, released
\* quickly, is emitted as single_click with channels = [c] when the closing
\* tick comes at most LONG_PRESS_TIME after the press edge.
C5_SingleClick ==
    (/\ result.isValid
     /\ Len(result.sequence) = 1
     /\ ReleasedQuickly(result.sequence[1])
     /\ result.totalDuration <= LONG_PRESS_TIME)
    => /\ result.gesture = "single_click"
       /\ result.teeth = result.sequence

C5_Witness ==
    /\ result.isValid
    /\ Len(result.sequence) = 1
    /\ ReleasedQuickly(result.sequence[1])
    /\ result.totalDuration = LONG_PRESS_TIME
    /\ result.gesture = "single_click"

\* C6: three accepted press edges of one channel c in one session, the last
\* 300 ms after the first, are emitted as multi_press with channels = [c].
C6_TriplePress ==
    (/\ result.isValid
     /\ Len(result.sequence) = 3
     /\ result.sequence[1] = result.sequence[2]
     /\ result.sequence[2] = result.sequence[3]
     /\ hist.last - hist.first = 300)
    => /\ result.gesture = "multi_press"
       /\ result.teeth = <<result.sequence[1]>>

\* C7 as stated: press edges on 2, 3, 4 in this order, the last 250 ms after
\* the first, are emitted as slide with channels = [2,3,4], whatever the
\* tick schedule.
C7_SlideAlways ==
    (/\ result.isValid
     /\ result.sequence = <<2, 3, 4>>
     /\ hist.last - hist.first = 250)
    => /\ result.gesture = "slide"
       /\ result.teeth = <<2, 3, 4>>

\* C7 amended: press edges on 2, 3, 4 in this order, the last 250 ms after
\* the first, are emitted as slide with channels = [2,3,4] when the closing
\* tick comes less than 3 * SLIDE_MAX_INTERVAL after the first press edge.
C7_Slide ==
    (/\ result.isValid
     /\ result.sequence = <<2, 3, 4>>
     /\ hist.last - hist.first = 250
     /\ result.totalDuration < 3 * SLIDE_MAX_INTERVAL)
    => /\ result.gesture = "slide"
       /\ result.teeth = <<2, 3, 4>>

C7_Witness ==
    /\ result.isValid
    /\ result.sequence = <<2, 3, 4>>
    /\ hist.last - hist.first = 250
    /\ result.gesture = "slide"
    /\ result.teeth = <<2, 3, 4>>

\* C8: when the only press of a session is released after being held longer
\* than LONG_PRESS_TIME, the tick that accepts the release returns
\* long_press with channels = [c] and a duration of at least the hold time
\* and less than the hold time plus MULTI_PRESS_WINDOW; no tick returns a
\* valid result while a channel is pressed.
C8_Step ==
    Running =>
       \A k \in 1..Len(serial') :
          (/\ serial'[k].edge = "release"
           /\ serial'[k].held > LONG_PRESS_TIME
           /\ gestureActive
           /\ currentGesture = <<serial'[k].pin>>)
          => /\ result'.isValid
             /\ result'.gesture = "long_press"
             /\ result'.teeth = <<serial'[k].pin>>
             /\ result'.totalDuration >= serial'[k].held
             /\ result'.totalDuration < serial'[k].held + MULTI_PRESS_WINDOW

C8_LongPress ==
    /\ [][C8_Step]_vars
    /\ []((\E i \in 1..Len(buttons) : buttons[i].isPressed) => ~result.isValid)

C8_Witness ==
    /\ result.isValid
    /\ result.gesture = "long_press"
    /\ Len(result.sequence) = 1
    /\ result.totalDuration = 900
    /\ \E k \in 1..Len(serial) :
          serial[k].edge = "release" /\ serial[k].held = 900

\* C9: no state is reachable in which the manager is running with zero
\* channels or with two ButtonState entries for the same pin.
C9_ConfigRejected ==
    Running =>
       /\ Len(buttons) > 0
       /\ \A i, j \in 1..Len(buttons) : buttons[i].pin = buttons[j].pin => i = j

\* C10: every valid result is returned by a tick more than
\* MULTI_PRESS_WINDOW after the last accepted press edge of its session, so
\* its duration exceeds 500 ms and exceeds (last press edge - first press
\* edge) + 500 ms.
C10_Latency ==
    result.isValid =>
       /\ millis - hist.last > MULTI_PRESS_WINDOW
       /\ result.totalDuration > MULTI_PRESS_WINDOW
       /\ result.totalDuration > (hist.last - hist.first) + MULTI_PRESS_WINDOW

C10_Witness ==
    /\ result.isValid
    /\ hist.last > hist.first
    /\ result.totalDuration = (hist.last - hist.first) + MULTI_PRESS_WINDOW + 1

Session == <<currentGesture, gestureStartTime, lastButtonTime, gestureActive>>
EdgeOf(lines, i) == {k \in 1..Len(lines) : lines[k].idx = i}

\* C11: for every channel isPressed equals currentState after init() and
\* after every tick.
C11_PressedIsDebounced ==
    \A i \in 1..Len(buttons) : buttons[i].isPressed = buttons[i].currentState

C11_Witness ==
    /\ Running
    /\ \E i, j \in 1..Len(buttons) :
          /\ buttons[i].isPressed /\ buttons[i].currentState
          /\ buttons[j].pressStartTime > 0
          /\ ~buttons[j].isPressed /\ ~buttons[j].currentState

\* C12: a tick in which a press edge is accepted returns no valid result
\* and does not reset the session: the session is active afterwards, its
\* presses are the earlier ones followed by the tick's press edges, and an
\* already open session keeps its start time, also when the earlier
\* quiescence window is over at that tick.
C12_Step ==
    (Running /\ PressPins(serial') # << >>) =>
       /\ ~result'.isValid
       /\ gestureActive'
       /\ currentGesture' = currentGesture \o PressPins(serial')
       /\ gestureActive => gestureStartTime' = gestureStartTime

C12_SampleThenEvaluate == [][C12_Step]_vars

C12_Witness ==
    /\ gestureActive
    /\ Len(currentGesture) = 2
    /\ currentGesture[1] # currentGesture[2]
    /\ lastButtonTime - gestureStartTime > MULTI_PRESS_WINDOW
    /\ Len(serial) = 1
    /\ serial[1].edge = "press"
    /\ \A i \in 1..Len(buttons) :
          buttons[i].pin = currentGesture[1] => ~buttons[i].isPressed

\* C13: a session ends only at a tick that returns a valid result with no
\* channel pressed and the last press edge more than MULTI_PRESS_WINDOW
\* back; when the ticks go on and every channel's level stays released, an
\* active session is eventually closed by a tick that returns a valid
\* result and leaves the controller idle; once a channel is pressed and its
\* level stays pressed, the session stays active and no tick returns a valid
\* result.
C13_EndStep ==
    (gestureActive /\ ~gestureActive') =>
       /\ result'.isValid
       /\ \A i \in 1..Len(buttons') : ~buttons'[i].isPressed
       /\ millis' - lastButtonTime > MULTI_PRESS_WINDOW

StuckPressed ==
    /\ env = "stuck"
    /\ \E i \in 1..Len(buttons) :
          buttons[i].pin = LivePins[1] /\ buttons[i].isPressed

C13_Liveness ==
    /\ (env = "released" /\ gestureActive) ~> (result.isValid /\ ~gestureActive)
    /\ [](StuckPressed => (gestureActive /\ ~result.isValid))
    /\ [][StuckPressed => StuckPressed']_vars
    /\ [][C13_EndStep]_vars

C13_Witness ==
    /\ env = "released"
    /\ result.isValid
    /\ ~gestureActive
    /\ Len(result.sequence) >= 2
    /\ millis > SettleBy + MULTI_PRESS_WINDOW

\* C14: the start time of a session is the time of the tick that accepts
\* its first press edge and does not change while the session is open; an
\* emitted duration is the clock reading of the closing analyzeGesture()
\* minus that start time; gestureStartTime <= lastButtonTime while the
\* session is active.
C14_Step ==
    Running =>
       /\ (gestureActive /\ gestureActive') => gestureStartTime' = gestureStartTime
       /\ (~gestureActive /\ gestureActive') =>
             /\ PressPins(serial') # << >>
             /\ gestureStartTime' = updNow'
       /\ result'.isValid =>
             /\ gestureActive
             /\ result'.totalDuration = millis' - gestureStartTime

C15_Step ==
    (Running /\ serial' # << >> /\ PressPins(serial') = << >>) =>
       /\ \A i \in 1..Len(buttons) :
             IF EdgeOf(serial', i) # {}
             THEN ~buttons'[i].isPressed /\ ~buttons'[i].currentState
             ELSE /\ buttons'[i].isPressed = buttons[i].isPressed
                  /\ buttons'[i].currentState = buttons[i].currentState
       /\ ~gestureActive => ~gestureActive'
       /\ \/ Session' = Session
          \/ /\ gestureActive
             /\ result'.isValid
             /\ result'.sequence = currentGesture
             /\ millis' - lastButtonTime > MULTI_PRESS_WINDOW

C15_ReleaseFrame == [][C15_Step]_vars

C15_Witness ==
    /\ gestureActive
    /\ ~result.isValid
    /\ Len(serial) = 1
    /\ serial[1].edge = "release"
    /\ updNow - lastButtonTime = MultiStep

\* C16 as stated: on a tick at which the sampled level of a channel differs
\* from its debounced level and has been the same for DEBOUNCE_TIME or
\* longer, the level is accepted and an edge produced.
C16_StepAtLeast ==
    Running =>
       \A i \in 1..Len(buttons) :
          (/\ buttons'[i].lastState # buttons[i].currentState
           /\ updNow' - hist'.flip[i] >= DEBOUNCE_TIME)
          => /\ EdgeOf(serial', i) # {}
             /\ buttons'[i].currentState = buttons'[i].lastState

C16_AtLeast == [][C16_StepAtLeast]_vars

\* C16 amended: on a tick at which the sampled level of a channel differs
\* from its debounced level and has been the same for longer than
\* DEBOUNCE_TIME, the level is accepted and an edge produced.
C16_StepMoreThan ==
    Running =>
       \A i \in 1..Len(buttons) :
          (/\ buttons'[i].lastState # buttons[i].currentState
           /\ updNow' - hist'.flip[i] > DEBOUNCE_TIME)
          => /\ EdgeOf(serial', i) # {}
             /\ buttons'[i].currentState = buttons'[i].lastState

C16_MoreThan == [][C16_StepMoreThan]_vars

C16_Witness ==
    \E k \in 1..Len(serial) :
       /\ serial[k].edge = "release"
       /\ updNow - hist.flip[serial[k].idx] = DEBOUNCE_TIME + 1

\* C17: gestureActive holds exactly when currentGesture is non-empty, and a
\* tick that ends an active session returns a valid result with the
\* presses of that session.
C17_Step ==
    (Running /\ gestureActive /\ ~gestureActive') =>
       /\ result'.isValid
       /\ result'.sequence = currentGesture

C17_ActiveIffPresses ==
    /\ [](gestureActive <=> currentGesture # << >>)
    /\ [][C17_Step]_vars

C17_Witness ==
    /\ result.isValid
    /\ result.gesture = "multi_press"
    /\ ~gestureActive
    /\ currentGesture = << >>

\* C18: the accepted edges of a channel alternate, starting with a press: a
\* tick accepts at most one edge per channel, a press edge only on a channel
\* that is not pressed, a release edge only on a pressed one; a press edge
\* comes more than 2 * DEBOUNCE_TIME after the previous press edge of the
\* same channel.
C18_Step ==
    Running =>
       /\ \A k, l \in 1..Len(serial') :
             serial'[k].pin = serial'[l].pin => k = l
       /\ \A k \in 1..Len(serial') :
             IF serial'[k].edge = "press"
             THEN \A j \in 1..Len(buttons) :
                     buttons[j].pin = serial'[k].pin =>
                        /\ ~buttons[j].isPressed
                        /\ buttons[j].pressStartTime > 0 =>
                              updNow' - buttons[j].pressStartTime > 2 * DEBOUNCE_TIME
             ELSE \E j \in 1..Len(buttons) :
                     buttons[j].pin = serial'[k].pin /\ buttons[j].isPressed

C18_Alternation == [][C18_Step]_vars

\* Milliseconds from power-up to the clock reading x.
SincePowerUp(x) == (x - boot) % ClockModulus

\* C19: with the clock wrapping during the run, every tick behaves by the
\* real elapsed times: a channel gets an edge exactly when its sampled level
\* differs from the debounced one and has been the same for more than
\* DEBOUNCE_TIME; a release prints the real hold time; the tick closes the
\* session exactly when it is active, no channel is pressed and the last
\* press edge is more than MULTI_PRESS_WINDOW back; the emitted duration is
\* the real time since the first press edge and the category the one that
\* duration gives.
C19_Step ==
    LET now == SincePowerUp(updNow')
        anow == SincePowerUp(millis')
        accepted == PressPins(serial') # << >>
        activeAfter == gestureActive \/ accepted
        lastAfter == IF accepted THEN updNow' ELSE lastButtonTime
        startAfter == IF gestureActive THEN gestureStartTime ELSE updNow'
        quiescent == /\ activeAfter
                     /\ \A i \in 1..Len(buttons') : ~buttons'[i].isPressed
                     /\ anow - SincePowerUp(lastAfter) > MULTI_PRESS_WINDOW
    IN  Running =>
          /\ \A i \in 1..Len(buttons) :
                (EdgeOf(serial', i) # {}) <=>
                   /\ buttons'[i].lastState # buttons[i].currentState
                   /\ now - SincePowerUp(hist'.flip[i]) > DEBOUNCE_TIME
          /\ \A k \in 1..Len(serial') :
                serial'[k].edge = "release" =>
                   serial'[k].held =
                      now - SincePowerUp(buttons[serial'[k].idx].pressStartTime)
          /\ result'.isValid <=> quiescent
          /\ result'.isValid =>
                /\ result'.totalDuration = anow - SincePowerUp(startAfter)
                /\ result'.gesture =
                      DocCategory(result'.sequence, anow - SincePowerUp(startAfter))

C19_WrapSafe == [][C19_Step]_vars

C19_Witness ==
    /\ result.isValid
    /\ millis < hist.first
    /\ result.gesture = "single_click"
    /\ result.totalDuration = MULTI_PRESS_WINDOW + 1

\* Bytes saveToEEPROM() writes for a configuration.
StoredSize(cfg) ==
    32 + Len(cfg.wifiSSID) + Len(cfg.wifiPassword) + Len(cfg.questIP)
       + Len(cfg.pcIP) + 4 * Len(cfg.buttonPins)

\* C20 as stated: after saveToEEPROM(), loadFromEEPROM() leaves every
\* stored field as it was saved, for pin lists of any length.
C20_RoundTripAny ==
    (stored.has /\ stored.loaded) => config = stored.cfg

\* C20 amended: after saveToEEPROM(), loadFromEEPROM() leaves every stored
\* field as it was saved when the pin list has at most 8 entries and the
\* saved bytes fit into the EEPROM.
C20_RoundTrip ==
    (/\ stored.has
     /\ stored.loaded
     /\ Len(stored.cfg.buttonPins) <= 8
     /\ StoredSize(stored.cfg) <= 512)
    => config = stored.cfg

C20_Witness ==
    /\ stored.has
    /\ stored.fresh
    /\ stored.loaded
    /\ Len(stored.cfg.buttonPins) = 8
    /\ Len(stored.cfg.wifiSSID) = MaxStr
    /\ config = stored.cfg

====
